---- MODULE Spec2Model ----
(***************************************************************************)
(* The Playbook store of ace-rs (src/models/playbook.rs) and the delta     *)
(* model that drives it (src/models/delta.rs).                             *)
(*                                                                         *)
(* Strings that the code takes apart (section names, bullet ids) are       *)
(* sequences of one-character strings; strings it only stores or compares  *)
(* (content, tag names, error kinds) are TLA+ strings.  Option<T> is a     *)
(* sequence of length 0 (None) or 1 (Some).  A u32 is a pair of 16-bit     *)
(* limbs, so that the full 32-bit range is represented.  The timestamps    *)
(* created_at / updated_at are not part of the state.                      *)
(***************************************************************************)
EXTENDS Integers, Sequences, FiniteSets, TLC

VARIABLES bullets, sections, next_id, last

vars == <<bullets, sections, next_id, last>>

(* ------------------------------ bounds --------------------------------- *)

\* total number of ids held by the section index
MaxEntries == 2
\* largest value of next_id explored
MaxNextId == 2
\* counters explored: 0..MaxCount and u32::MAX
MaxCount == 3
\* longest delta batch explored
MaxBatch == 2

(* ------------------------------ options -------------------------------- *)

None == <<>>
Some(x) == <<x>>

(* --------------------------- u32 arithmetic ---------------------------- *)

Limb == 2^16

\* the u32 with value n, for 0 <= n < 2^31
U32(n) == [hi |-> n \div Limb, lo |-> n % Limb]

U32_MAX == [hi |-> Limb - 1, lo |-> Limb - 1]

\* c + inc as an unbounded number: lo is a limb, hi may lie outside 0..Limb-1
WideSum(c, inc) ==
    LET lo_sum == c.lo + (inc % Limb)
    IN  [hi |-> c.hi + (inc \div Limb) + (lo_sum \div Limb), lo |-> lo_sum % Limb]

\* u32::saturating_add_signed(self, rhs: i32)
saturating_add_signed(c, inc) ==
    LET w == WideSum(c, inc)
    IN  IF w.hi < 0 THEN U32(0)
        ELSE IF w.hi > Limb - 1 THEN U32_MAX
        ELSE w

\* (v.max(0)) as u32, for an i32 v
CoerceU32(v) == U32(IF v > 0 THEN v ELSE 0)

(* ------------------------------ strings -------------------------------- *)

Upper == <<"A","B","C","D","E","F","G","H","I","J","K","L","M",
           "N","O","P","Q","R","S","T","U","V","W","X","Y","Z">>
Lower == <<"a","b","c","d","e","f","g","h","i","j","k","l","m",
           "n","o","p","q","r","s","t","u","v","w","x","y","z">>

IsWhitespace(c) == c \in {" ", "\t", "\n", "\r"}

ToLowerChar(c) ==
    IF \E i \in 1..Len(Upper) : Upper[i] = c
    THEN Lower[CHOOSE i \in 1..Len(Upper) : Upper[i] = c]
    ELSE c

\* str::to_lowercase
to_lowercase(s) == [i \in 1..Len(s) |-> ToLowerChar(s[i])]

RECURSIVE SkipWhitespace(_)
SkipWhitespace(s) ==
    IF s # <<>> /\ IsWhitespace(Head(s)) THEN SkipWhitespace(Tail(s)) ELSE s

RECURSIVE TakeToken(_)
TakeToken(s) ==
    IF s = <<>> \/ IsWhitespace(Head(s)) THEN <<>>
    ELSE <<Head(s)>> \o TakeToken(Tail(s))

\* section.split_whitespace().next()
FirstToken(s) ==
    LET t == TakeToken(SkipWhitespace(s))
    IN  IF t = <<>> THEN None ELSE Some(t)

DigitChars == <<"0","1","2","3","4","5","6","7","8","9">>

RECURSIVE Decimal(_)
Decimal(n) ==
    IF n < 10 THEN <<DigitChars[n + 1]>>
    ELSE Decimal(n \div 10) \o <<DigitChars[(n % 10) + 1]>>

RECURSIVE PadLeft(_, _)
PadLeft(s, width) == IF Len(s) >= width THEN s ELSE PadLeft(<<"0">> \o s, width)

\* format!("{:05}", n)
Pad5(n) == PadLeft(Decimal(n), 5)

(* ------------------------------- maps ---------------------------------- *)

EmptyMap == <<>>

Put(m, k, v) == [x \in (DOMAIN m) \cup {k} |-> IF x = k THEN v ELSE m[x]]

Remove(m, k) == [x \in (DOMAIN m) \ {k} |-> m[x]]

\* Vec::retain(|id| id != bullet_id)
RECURSIVE Retain(_, _)
Retain(ids, bullet_id) ==
    IF ids = <<>> THEN <<>>
    ELSE IF Head(ids) = bullet_id THEN Retain(Tail(ids), bullet_id)
    ELSE <<Head(ids)>> \o Retain(Tail(ids), bullet_id)

(* ------------------------------ Bullet --------------------------------- *)

\* Bullet::new: the id field is the empty string
BulletNew(section, content) ==
    [id |-> <<>>, section |-> section, content |-> content,
     helpful |-> U32(0), harmful |-> U32(0), neutral |-> U32(0)]

\* Bullet::apply_metadata: absolute values, unknown keys skipped
apply_metadata(b, metadata) ==
    [b EXCEPT
       !.helpful = IF "helpful" \in DOMAIN metadata THEN metadata["helpful"] ELSE @,
       !.harmful = IF "harmful" \in DOMAIN metadata THEN metadata["harmful"] ELSE @,
       !.neutral = IF "neutral" \in DOMAIN metadata THEN metadata["neutral"] ELSE @]

\* u32::checked_add_signed(rhs).unwrap_or(self): the value is kept when the
\* sum leaves the u32 range
CheckedAddOrKeep(c, inc) ==
    LET w == WideSum(c, inc)
    IN  IF w.hi < 0 \/ w.hi > Limb - 1 THEN c ELSE w

\* Bullet::tag with checked arithmetic in place of saturating arithmetic
tag_CheckedAdd(b, t, increment) ==
    CASE t = "helpful" ->
           [bullet |-> [b EXCEPT !.helpful = CheckedAddOrKeep(@, increment)], err |-> "Ok"]
      [] t = "harmful" ->
           [bullet |-> [b EXCEPT !.harmful = CheckedAddOrKeep(@, increment)], err |-> "Ok"]
      [] t = "neutral" ->
           [bullet |-> [b EXCEPT !.neutral = CheckedAddOrKeep(@, increment)], err |-> "Ok"]
      [] OTHER -> [bullet |-> b, err |-> "InvalidTag"]

\* Bullet::tag
tag(b, t, increment) ==
    CASE t = "helpful" ->
           [bullet |-> [b EXCEPT !.helpful = saturating_add_signed(@, increment)],
            err |-> "Ok"]
      [] t = "harmful" ->
           [bullet |-> [b EXCEPT !.harmful = saturating_add_signed(@, increment)],
            err |-> "Ok"]
      [] t = "neutral" ->
           [bullet |-> [b EXCEPT !.neutral = saturating_add_signed(@, increment)],
            err |-> "Ok"]
      [] OTHER -> [bullet |-> b, err |-> "InvalidTag"]

(* ------------------------------ Playbook ------------------------------- *)

\* Playbook::default
EmptyPlaybook == [bullets |-> EmptyMap, sections |-> EmptyMap, next_id |-> 0]

\* the playbook held by the variables
Store == [bullets |-> bullets, sections |-> sections, next_id |-> next_id]

\* Playbook::generate_id with the incremented counter used for the id but
\* not written back to next_id
generate_id_NoIncrement(pb, section) ==
    LET n == pb.next_id + 1
        tok == FirstToken(section)
        section_prefix ==
            to_lowercase(IF tok = None THEN <<"d","e","f","a","u","l","t">> ELSE tok[1])
    IN  [pb |-> pb,
         id |-> section_prefix \o <<"-">> \o Pad5(n)]

\* Playbook::generate_id without the to_lowercase call
generate_id_NoLowercase(pb, section) ==
    LET n == pb.next_id + 1
        tok == FirstToken(section)
        section_prefix == IF tok = None THEN <<"d","e","f","a","u","l","t">> ELSE tok[1]
    IN  [pb |-> [pb EXCEPT !.next_id = n],
         id |-> section_prefix \o <<"-">> \o Pad5(n)]

\* Playbook::generate_id
generate_id(pb, section) ==
    LET n == pb.next_id + 1
        tok == FirstToken(section)
        section_prefix ==
            to_lowercase(IF tok = None THEN <<"d","e","f","a","u","l","t">> ELSE tok[1])
    IN  [pb |-> [pb EXCEPT !.next_id = n],
         id |-> section_prefix \o <<"-">> \o Pad5(n)]

\* Playbook::add_bullet with unwrap_or in place of unwrap_or_else:
\* the id generator runs even when the caller supplies an id
add_bullet_EagerGenerate(pb, section, content, bullet_id, metadata) ==
    LET gen == generate_id(pb, section)
        pb1 == gen.pb
        id  == IF bullet_id = None THEN gen.id ELSE bullet_id[1]
        b0  == BulletNew(section, content)
        b   == IF metadata = None THEN b0 ELSE apply_metadata(b0, metadata[1])
        ids == IF section \in DOMAIN pb1.sections THEN pb1.sections[section] ELSE <<>>
    IN  [pb |-> [bullets |-> Put(pb1.bullets, id, b),
                 sections |-> Put(pb1.sections, section, Append(ids, id)),
                 next_id |-> pb1.next_id],
         key |-> id,
         ret |-> b]

\* Playbook::add_bullet; key is the map key used, ret the bullet returned
add_bullet(pb, section, content, bullet_id, metadata) ==
    LET gen == generate_id(pb, section)
        pb1 == IF bullet_id = None THEN gen.pb ELSE pb
        id  == IF bullet_id = None THEN gen.id ELSE bullet_id[1]
        b0  == BulletNew(section, content)
        b   == IF metadata = None THEN b0 ELSE apply_metadata(b0, metadata[1])
        ids == IF section \in DOMAIN pb1.sections THEN pb1.sections[section] ELSE <<>>
    IN  [pb |-> [bullets |-> Put(pb1.bullets, id, b),
                 sections |-> Put(pb1.sections, section, Append(ids, id)),
                 next_id |-> pb1.next_id],
         key |-> id,
         ret |-> b]

\* Playbook::update_bullet with a missing id treated as nothing to do
update_bullet_IgnoreMissing(pb, bullet_id, content, metadata) ==
    IF bullet_id \notin DOMAIN pb.bullets
    THEN [pb |-> pb, err |-> "Ok"]
    ELSE LET b0 == pb.bullets[bullet_id]
             b1 == IF content = None THEN b0 ELSE [b0 EXCEPT !.content = content[1]]
             b2 == IF metadata = None THEN b1 ELSE apply_metadata(b1, metadata[1])
         IN  [pb |-> [pb EXCEPT !.bullets = Put(@, bullet_id, b2)], err |-> "Ok"]

\* Playbook::update_bullet
update_bullet(pb, bullet_id, content, metadata) ==
    IF bullet_id \notin DOMAIN pb.bullets
    THEN [pb |-> pb, err |-> "BulletNotFound"]
    ELSE LET b0 == pb.bullets[bullet_id]
             b1 == IF content = None THEN b0 ELSE [b0 EXCEPT !.content = content[1]]
             b2 == IF metadata = None THEN b1 ELSE apply_metadata(b1, metadata[1])
         IN  [pb |-> [pb EXCEPT !.bullets = Put(@, bullet_id, b2)], err |-> "Ok"]

\* Playbook::tag_bullet
tag_bullet(pb, bullet_id, t, increment) ==
    IF bullet_id \notin DOMAIN pb.bullets
    THEN [pb |-> pb, err |-> "BulletNotFound"]
    ELSE LET r == tag(pb.bullets[bullet_id], t, increment)
         IN  [pb |-> [pb EXCEPT !.bullets = Put(@, bullet_id, r.bullet)], err |-> r.err]

\* Playbook::remove_bullet without the removal of a section left empty
remove_bullet_KeepEmptySection(pb, bullet_id) ==
    IF bullet_id \notin DOMAIN pb.bullets
    THEN [pb |-> pb, ret |-> None]
    ELSE LET bullet == pb.bullets[bullet_id]
             bs == Remove(pb.bullets, bullet_id)
             ss == IF bullet.section \notin DOMAIN pb.sections THEN pb.sections
                   ELSE Put(pb.sections, bullet.section,
                            Retain(pb.sections[bullet.section], bullet_id))
         IN  [pb |-> [pb EXCEPT !.bullets = bs, !.sections = ss], ret |-> Some(bullet)]

\* Playbook::remove_bullet; ret is the Option<Bullet> returned
remove_bullet(pb, bullet_id) ==
    IF bullet_id \notin DOMAIN pb.bullets
    THEN [pb |-> pb, ret |-> None]
    ELSE LET bullet == pb.bullets[bullet_id]
             bs == Remove(pb.bullets, bullet_id)
             section_ids == Retain(pb.sections[bullet.section], bullet_id)
             ss == IF bullet.section \notin DOMAIN pb.sections THEN pb.sections
                   ELSE IF section_ids = <<>> THEN Remove(pb.sections, bullet.section)
                   ELSE Put(pb.sections, bullet.section, section_ids)
         IN  [pb |-> [pb EXCEPT !.bullets = bs, !.sections = ss], ret |-> Some(bullet)]

\* Playbook::get_bullet
get_bullet(pb, bullet_id) ==
    IF bullet_id \in DOMAIN pb.bullets THEN Some(pb.bullets[bullet_id]) ELSE None

(* ------------------------------ rendering ------------------------------ *)

\* Text is a sequence of one-character strings; a bullet's content, which the
\* code copies as it is, is one element of the sequence (none when empty).

\* the characters of the model in the order of their code points
CodePoints ==
    <<"\n", " ", "#", "(", ")", ",", "-">> \o DigitChars \o <<"=">>
        \o Upper \o <<"[", "]">> \o Lower

CodePoint(c) == CHOOSE i \in 1..Len(CodePoints) : CodePoints[i] = c

\* a < b in the order of String (bytewise lexicographic)
RECURSIVE StrLess(_, _)
StrLess(a, b) ==
    IF b = <<>> THEN FALSE
    ELSE IF a = <<>> THEN TRUE
    ELSE IF Head(a) = Head(b) THEN StrLess(Tail(a), Tail(b))
    ELSE CodePoint(Head(a)) < CodePoint(Head(b))

\* sorted_sections: the keys collected and sorted
RECURSIVE SortedKeys(_)
SortedKeys(S) ==
    IF S = {} THEN <<>>
    ELSE LET m == CHOOSE m \in S : \A x \in S \ {m} : StrLess(m, x)
         IN  <<m>> \o SortedKeys(S \ {m})

\* Display of a u32: its decimal digits, by long division of the two limbs
RECURSIVE DecimalU32(_)
DecimalU32(c) ==
    LET r == (c.hi % 10) * Limb + c.lo
        q == [hi |-> c.hi \div 10, lo |-> r \div 10]
        d == <<DigitChars[(r % 10) + 1]>>
    IN  IF q = U32(0) THEN d ELSE DecimalU32(q) \o d

\* format!("## {}", section)
HeadingLine(section) == <<"#", "#", " ">> \o section

\* format!("(helpful={}, harmful={}, neutral={})", ...)
CountersText(b) ==
    <<"(", "h", "e", "l", "p", "f", "u", "l", "=">> \o DecimalU32(b.helpful)
        \o <<",", " ", "h", "a", "r", "m", "f", "u", "l", "=">> \o DecimalU32(b.harmful)
        \o <<",", " ", "n", "e", "u", "t", "r", "a", "l", "=">> \o DecimalU32(b.neutral)
        \o <<")">>

ContentText(content) == IF content = "" THEN <<>> ELSE <<content>>

\* format!("- [{}] {} {}", id, bullet.content, counters)
LineText(id, b) ==
    <<"-", " ", "[">> \o id \o <<"]", " ">> \o ContentText(b.content)
        \o <<" ">> \o CountersText(b)

\* the line as_prompt pushes for a bullet: it prints the bullet's id field
BulletLine(b) == LineText(b.id, b)

\* the inner loop of as_prompt from entry i of the section's Vec on: ids
\* that bullets does not hold push nothing
RECURSIVE SectionLines(_, _, _)
SectionLines(pb, bullet_ids, i) ==
    IF i > Len(bullet_ids) THEN <<>>
    ELSE (IF bullet_ids[i] \in DOMAIN pb.bullets
          THEN <<BulletLine(pb.bullets[bullet_ids[i]])>> ELSE <<>>)
             \o SectionLines(pb, bullet_ids, i + 1)

\* the outer loop of as_prompt from sorted section i on
RECURSIVE PromptParts(_, _, _)
PromptParts(pb, sorted_sections, i) ==
    IF i > Len(sorted_sections) THEN <<>>
    ELSE <<HeadingLine(sorted_sections[i])>>
             \o SectionLines(pb, pb.sections[sorted_sections[i]], 1)
             \o PromptParts(pb, sorted_sections, i + 1)

\* parts.join(sep)
RECURSIVE join(_, _)
join(parts, sep) ==
    IF parts = <<>> THEN <<>>
    ELSE IF Len(parts) = 1 THEN parts[1]
    ELSE parts[1] \o sep \o join(Tail(parts), sep)

\* Playbook::as_prompt
as_prompt(pb) == join(PromptParts(pb, SortedKeys(DOMAIN pb.sections), 1), <<"\n">>)

\* "Playbook(empty)"
EmptyMarker == <<"P","l","a","y","b","o","o","k","(","e","m","p","t","y",")">>

\* impl Display for Playbook without the early return for an empty store
fmt_AlwaysPrompt(pb) == as_prompt(pb)

\* impl Display for Playbook
fmt(pb) == IF DOMAIN pb.bullets = {} THEN EmptyMarker ELSE as_prompt(pb)

(* -------------------------------- stats -------------------------------- *)

\* a u64: top is its upper 32 bits as a number, hi and lo the limbs below
\* `c as u64`
U64(c) == [top |-> 0, hi |-> c.hi, lo |-> c.lo]

\* a + b on u64, for sums that stay below 2^63
AddU64(a, b) ==
    LET lo == a.lo + b.lo
        hi == a.hi + b.hi + (lo \div Limb)
    IN  [top |-> a.top + b.top + (hi \div Limb), hi |-> hi % Limb, lo |-> lo % Limb]

\* bullets.values().map(|b| b.<t> as u64).sum::<u64>() over the keys in S
RECURSIVE SumValues(_, _, _)
SumValues(bs, S, t) ==
    IF S = {} THEN U64(U32(0))
    ELSE LET id == CHOOSE id \in S : TRUE
         IN  AddU64(U64(bs[id][t]), SumValues(bs, S \ {id}, t))

\* Playbook::stats
stats(pb) ==
    [sections |-> Cardinality(DOMAIN pb.sections),
     bullets |-> Cardinality(DOMAIN pb.bullets),
     tags |-> [helpful |-> SumValues(pb.bullets, DOMAIN pb.bullets, "helpful"),
               harmful |-> SumValues(pb.bullets, DOMAIN pb.bullets, "harmful"),
               neutral |-> SumValues(pb.bullets, DOMAIN pb.bullets, "neutral")]]

(* --------------------------- delta operations -------------------------- *)

\* DeltaOperation: metadata is a HashMap<String, i32>
DeltaOperation(type_, section, content, bullet_id, metadata) ==
    [type_ |-> type_, section |-> section, content |-> content,
     bullet_id |-> bullet_id, metadata |-> metadata]

\* the ADD / UPDATE arms: Some(map of v.max(0) as u32), or None for an empty map
CoerceMetadata(metadata) ==
    IF DOMAIN metadata = {} THEN None
    ELSE Some([k \in DOMAIN metadata |-> CoerceU32(metadata[k])])

\* the TAG arm's loop from entry i on; order is the order in which the
\* HashMap yields its keys
RECURSIVE TagEntries(_, _, _, _, _)
TagEntries(pb, bullet_id, metadata, order, i) ==
    IF i > Len(order) THEN [pb |-> pb, err |-> "Ok"]
    ELSE LET r == tag_bullet(pb, bullet_id, order[i], metadata[order[i]])
         IN  IF r.err # "Ok" THEN r
             ELSE TagEntries(r.pb, bullet_id, metadata, order, i + 1)

\* Playbook::_apply_operation with a REMOVE that fails, as UPDATE does, when
\* the store does not hold the bullet it names
apply_operation_RemoveChecked(pb, op, order) ==
    CASE op.type_ = "ADD" ->
           [pb |-> add_bullet(pb, op.section,
                              IF op.content = None THEN "" ELSE op.content[1],
                              op.bullet_id, CoerceMetadata(op.metadata)).pb,
            err |-> "Ok"]
      [] op.type_ = "UPDATE" ->
           IF op.bullet_id = None THEN [pb |-> pb, err |-> "DeltaMissingField"]
           ELSE update_bullet(pb, op.bullet_id[1], op.content, CoerceMetadata(op.metadata))
      [] op.type_ = "TAG" ->
           IF op.bullet_id = None THEN [pb |-> pb, err |-> "DeltaMissingField"]
           ELSE TagEntries(pb, op.bullet_id[1], op.metadata, order, 1)
      [] op.type_ = "REMOVE" ->
           IF op.bullet_id = None THEN [pb |-> pb, err |-> "DeltaMissingField"]
           ELSE IF op.bullet_id[1] \notin DOMAIN pb.bullets
           THEN [pb |-> pb, err |-> "BulletNotFound"]
           ELSE [pb |-> remove_bullet(pb, op.bullet_id[1]).pb, err |-> "Ok"]

\* Playbook::_apply_operation with a REMOVE that names no bullet skipped
apply_operation_RemoveNothing(pb, op, order) ==
    CASE op.type_ = "ADD" ->
           [pb |-> add_bullet(pb, op.section,
                              IF op.content = None THEN "" ELSE op.content[1],
                              op.bullet_id, CoerceMetadata(op.metadata)).pb,
            err |-> "Ok"]
      [] op.type_ = "UPDATE" ->
           IF op.bullet_id = None THEN [pb |-> pb, err |-> "DeltaMissingField"]
           ELSE update_bullet(pb, op.bullet_id[1], op.content, CoerceMetadata(op.metadata))
      [] op.type_ = "TAG" ->
           IF op.bullet_id = None THEN [pb |-> pb, err |-> "DeltaMissingField"]
           ELSE TagEntries(pb, op.bullet_id[1], op.metadata, order, 1)
      [] op.type_ = "REMOVE" ->
           IF op.bullet_id = None THEN [pb |-> pb, err |-> "Ok"]
           ELSE [pb |-> remove_bullet(pb, op.bullet_id[1]).pb, err |-> "Ok"]

\* Playbook::_apply_operation
apply_operation(pb, op, order) ==
    CASE op.type_ = "ADD" ->
           [pb |-> add_bullet(pb, op.section,
                              IF op.content = None THEN "" ELSE op.content[1],
                              op.bullet_id, CoerceMetadata(op.metadata)).pb,
            err |-> "Ok"]
      [] op.type_ = "UPDATE" ->
           IF op.bullet_id = None THEN [pb |-> pb, err |-> "DeltaMissingField"]
           ELSE update_bullet(pb, op.bullet_id[1], op.content, CoerceMetadata(op.metadata))
      [] op.type_ = "TAG" ->
           IF op.bullet_id = None THEN [pb |-> pb, err |-> "DeltaMissingField"]
           ELSE TagEntries(pb, op.bullet_id[1], op.metadata, order, 1)
      [] op.type_ = "REMOVE" ->
           IF op.bullet_id = None THEN [pb |-> pb, err |-> "DeltaMissingField"]
           ELSE [pb |-> remove_bullet(pb, op.bullet_id[1]).pb, err |-> "Ok"]

\* Playbook::apply_delta from operation i on, with the first error kept
\* for the end of the loop instead of returned at once
RECURSIVE apply_delta_from_KeepGoing(_, _, _, _)
apply_delta_from_KeepGoing(pb, operations, orders, i) ==
    IF i > Len(operations) THEN [pb |-> pb, err |-> "Ok", failed |-> 0]
    ELSE LET r == apply_operation(pb, operations[i], orders[i])
             rest == apply_delta_from_KeepGoing(r.pb, operations, orders, i + 1)
         IN  IF r.err # "Ok" THEN [pb |-> rest.pb, err |-> r.err, failed |-> i]
             ELSE rest

\* Playbook::apply_delta from operation i on; failed is the index of the
\* operation whose error is returned, 0 when there is none
RECURSIVE apply_delta_from(_, _, _, _)
apply_delta_from(pb, operations, orders, i) ==
    IF i > Len(operations) THEN [pb |-> pb, err |-> "Ok", failed |-> 0]
    ELSE LET r == apply_operation(pb, operations[i], orders[i])
         IN  IF r.err # "Ok" THEN [pb |-> r.pb, err |-> r.err, failed |-> i]
             ELSE apply_delta_from(r.pb, operations, orders, i + 1)

\* Playbook::apply_delta
apply_delta(pb, operations, orders) == apply_delta_from(pb, operations, orders, 1)

(* --------------------------------- JSON -------------------------------- *)

\* serde_json::Value; t names the variant.  An integer Number is an i64:
\* hi is its upper 32 bits as a signed number, lo the u32 of its lower 32
\* bits.  JFloat is a Number that holds no integer, such as 1.5.
JNull == [t |-> "null"]
JString(s) == [t |-> "string", s |-> s]
JInt(hi, lo) == [t |-> "number", int |-> TRUE, hi |-> hi, lo |-> lo]
JFloat == [t |-> "number", int |-> FALSE]
JObject(o) == [t |-> "object", o |-> o]
JArray(a) == [t |-> "array", a |-> a]

\* payload[key]: Null when payload is no object or has no such key
Index(payload, key) ==
    IF payload.t = "object" /\ key \in DOMAIN payload.o THEN payload.o[key] ELSE JNull

as_str(v) == IF v.t = "string" THEN Some(v.s) ELSE None
as_i64(v) == IF v.t = "number" /\ v.int THEN Some([hi |-> v.hi, lo |-> v.lo]) ELSE None
as_object(v) == IF v.t = "object" THEN Some(v.o) ELSE None
as_array(v) == IF v.t = "array" THEN Some(v.a) ELSE None

\* `val as i32` for an i64: the lower 32 bits, read as a signed number
AsI32(val) ==
    IF val.lo.hi >= Limb \div 2 THEN (val.lo.hi - Limb) * Limb + val.lo.lo
    ELSE val.lo.hi * Limb + val.lo.lo

\* serde_json::Number::from(v) for an i32 v
NumberFromI32(v) ==
    JInt(IF v < 0 THEN -1 ELSE 0, [hi |-> (v \div Limb) % Limb, lo |-> v % Limb])

ToUpperChar(c) ==
    IF \E i \in 1..Len(Lower) : Lower[i] = c
    THEN Upper[CHOOSE i \in 1..Len(Lower) : Lower[i] = c]
    ELSE c

\* str::to_uppercase
to_uppercase(s) == [i \in 1..Len(s) |-> ToUpperChar(s[i])]

(* ------------------------- delta parse / serialize ---------------------- *)

\* impl Display for OperationType
OperationTypeText(type_) ==
    CASE type_ = "ADD" -> <<"A", "D", "D">>
      [] type_ = "UPDATE" -> <<"U", "P", "D", "A", "T", "E">>
      [] type_ = "TAG" -> <<"T", "A", "G">>
      [] type_ = "REMOVE" -> <<"R", "E", "M", "O", "V", "E">>

\* the match on op_type_str: None for the `_` arm
MatchOperationType(op_type_str) ==
    IF \E type_ \in {"ADD", "UPDATE", "TAG", "REMOVE"} : OperationTypeText(type_) = op_type_str
    THEN Some(CHOOSE type_ \in {"ADD", "UPDATE", "TAG", "REMOVE"} :
                  OperationTypeText(type_) = op_type_str)
    ELSE None

valid_tags == {"helpful", "harmful", "neutral"}

\* DeltaOperation::from_json with the metadata of every kind filtered as
\* that of ADD is: integer values kept under any key
DeltaOperation_from_json_KeepAllKeys(payload) ==
    LET type_str == as_str(Index(payload, "type"))
        op_type == IF type_str = None THEN None
                   ELSE MatchOperationType(to_uppercase(type_str[1]))
        meta_raw == as_object(Index(payload, "metadata"))
        kept == IF meta_raw = None THEN {}
                ELSE { k \in DOMAIN meta_raw[1] : as_i64(meta_raw[1][k]) # None }
        section == as_str(Index(payload, "section"))
    IN  IF type_str = None THEN [err |-> "Invalid type", ret |-> None]
        ELSE IF op_type = None THEN [err |-> "Invalid operation type", ret |-> None]
        ELSE [err |-> "Ok",
              ret |-> Some(DeltaOperation(
                         op_type[1],
                         IF section = None THEN <<>> ELSE section[1],
                         as_str(Index(payload, "content")),
                         as_str(Index(payload, "bullet_id")),
                         [k \in kept |-> AsI32(as_i64(meta_raw[1][k])[1])]))]

\* DeltaOperation::from_json; ret is Some(operation) when err is "Ok"
DeltaOperation_from_json(payload) ==
    LET type_str == as_str(Index(payload, "type"))
        op_type == IF type_str = None THEN None
                   ELSE MatchOperationType(to_uppercase(type_str[1]))
        meta_raw == as_object(Index(payload, "metadata"))
        kept == IF meta_raw = None THEN {}
                ELSE { k \in DOMAIN meta_raw[1] :
                         /\ op_type = Some("TAG") => k \in valid_tags
                         /\ as_i64(meta_raw[1][k]) # None }
        section == as_str(Index(payload, "section"))
    IN  IF type_str = None THEN [err |-> "Invalid type", ret |-> None]
        ELSE IF op_type = None THEN [err |-> "Invalid operation type", ret |-> None]
        ELSE [err |-> "Ok",
              ret |-> Some(DeltaOperation(
                         op_type[1],
                         IF section = None THEN <<>> ELSE section[1],
                         as_str(Index(payload, "content")),
                         as_str(Index(payload, "bullet_id")),
                         [k \in kept |-> AsI32(as_i64(meta_raw[1][k])[1])]))]

\* DeltaOperation::to_json with content always written, as the empty string
\* when the operation has none
DeltaOperation_to_json_ContentDefault(op) ==
    LET keys == {"type", "section", "content"}
                   \cup (IF op.bullet_id # None THEN {"bullet_id"} ELSE {})
                   \cup (IF DOMAIN op.metadata # {} THEN {"metadata"} ELSE {})
    IN  JObject([k \in keys |->
            CASE k = "type" -> JString(to_lowercase(OperationTypeText(op.type_)))
              [] k = "section" -> JString(op.section)
              [] k = "content" -> JString(IF op.content = None THEN "" ELSE op.content[1])
              [] k = "bullet_id" -> JString(op.bullet_id[1])
              [] k = "metadata" ->
                   JObject([t \in DOMAIN op.metadata |-> NumberFromI32(op.metadata[t])])])

\* DeltaOperation::to_json
DeltaOperation_to_json(op) ==
    LET keys == {"type", "section"}
                   \cup (IF op.content # None THEN {"content"} ELSE {})
                   \cup (IF op.bullet_id # None THEN {"bullet_id"} ELSE {})
                   \cup (IF DOMAIN op.metadata # {} THEN {"metadata"} ELSE {})
    IN  JObject([k \in keys |->
            CASE k = "type" -> JString(to_lowercase(OperationTypeText(op.type_)))
              [] k = "section" -> JString(op.section)
              [] k = "content" -> JString(op.content[1])
              [] k = "bullet_id" -> JString(op.bullet_id[1])
              [] k = "metadata" ->
                   JObject([t \in DOMAIN op.metadata |-> NumberFromI32(op.metadata[t])])])

\* the loop of DeltaBatch::from_json from item i on: items that are no
\* objects are passed over, the first operation that fails to parse ends it
RECURSIVE ParseItems(_, _)
ParseItems(ops_array, i) ==
    IF i > Len(ops_array) THEN [err |-> "Ok", operations |-> <<>>]
    ELSE IF ops_array[i].t # "object" THEN ParseItems(ops_array, i + 1)
    ELSE LET r == DeltaOperation_from_json(ops_array[i])
             rest == ParseItems(ops_array, i + 1)
         IN  IF r.err # "Ok" THEN [err |-> r.err, operations |-> <<>>]
             ELSE IF rest.err # "Ok" THEN rest
             ELSE [err |-> "Ok", operations |-> <<r.ret[1]>> \o rest.operations]

\* DeltaBatch::from_json; ret is Some(batch) when err is "Ok"
DeltaBatch_from_json(payload) ==
    LET ops_array == as_array(Index(payload, "operations"))
        r == IF ops_array = None THEN [err |-> "Ok", operations |-> <<>>]
             ELSE ParseItems(ops_array[1], 1)
        reasoning == as_str(Index(payload, "reasoning"))
    IN  IF r.err # "Ok" THEN [err |-> r.err, ret |-> None]
        ELSE [err |-> "Ok",
              ret |-> Some([reasoning |-> IF reasoning = None THEN "" ELSE reasoning[1],
                            operations |-> r.operations])]

(* ------------------------------- inputs -------------------------------- *)

SectionEmpty == <<>>
SectionRetry == <<"R","e","t","r","y">>
SectionRetryLogic == <<"R","e","t","r","y"," ","L","o","g","i","c">>
SectionMulti == <<" ","B"," ","x">>

\* an id a caller supplies that the generator also produces, and one it does not
IdRetry1 == <<"r","e","t","r","y","-","0","0","0","0","1">>
IdX == <<"x">>

\* Option<BTreeMap<String, u32>> arguments of add_bullet / update_bullet
AbsMetadata ==
    { None,
      Some([helpful |-> U32(MaxCount), harmful |-> U32(1)]),
      Some([neutral |-> U32_MAX, bogus |-> U32(7)]) }

TagNames == {"helpful", "harmful", "neutral", "bogus"}
Increments == {1, -100}

OpAddRetry == DeltaOperation("ADD", SectionRetry, Some("Use backoff"), None, EmptyMap)
OpAddMulti == DeltaOperation("ADD", SectionMulti, None, None, [helpful |-> 1, harmful |-> -2])
OpAddSupplied ==
    DeltaOperation("ADD", SectionRetryLogic, Some("Use backoff"), Some(IdRetry1), EmptyMap)
OpTagInvalid ==
    DeltaOperation("TAG", SectionEmpty, None, Some(IdRetry1), [helpful |-> 1, bogus |-> 9])
OpTagTwo ==
    DeltaOperation("TAG", SectionEmpty, None, Some(IdRetry1), [helpful |-> -100, neutral |-> -1])
OpTagX == DeltaOperation("TAG", SectionEmpty, None, Some(IdX), [harmful |-> 1, neutral |-> 1])
OpUpdateNoId == DeltaOperation("UPDATE", SectionEmpty, Some("v2"), None, EmptyMap)
OpRemoveRetry1 == DeltaOperation("REMOVE", SectionEmpty, None, Some(IdRetry1), EmptyMap)

OpUpdateRetry1 ==
    DeltaOperation("UPDATE", SectionEmpty, Some("Use backoff"), Some(IdRetry1), EmptyMap)
OpTagNoEntries == DeltaOperation("TAG", SectionEmpty, None, Some(IdRetry1), EmptyMap)
OpTagNoId == DeltaOperation("TAG", SectionEmpty, None, None, [helpful |-> 1])
OpRemoveNoId == DeltaOperation("REMOVE", SectionEmpty, None, None, EmptyMap)

\* payloads of DeltaOperation::from_json
PayloadAdd ==
    JObject([type |-> JString(<<"a", "d", "d">>), section |-> JString(SectionRetry),
             content |-> JString("Use backoff")])
PayloadAddMeta ==
    JObject([type |-> JString(<<"A", "D", "D">>), section |-> JString(SectionRetry),
             content |-> JInt(0, U32(7)),
             metadata |-> JObject([helpful |-> JInt(-1, [hi |-> Limb - 1, lo |-> Limb - 2]),
                                   bogus |-> JInt(0, U32(9)), neutral |-> JFloat])])
PayloadTagMixed ==
    JObject([type |-> JString(<<"t", "a", "g">>), bullet_id |-> JString(IdRetry1),
             metadata |-> JObject([helpful |-> JInt(0, U32(1)), bogus |-> JInt(0, U32(9))])])
PayloadTagWide ==
    JObject([type |-> JString(<<"T", "a", "g">>), section |-> JNull,
             bullet_id |-> JString(IdRetry1),
             metadata |-> JObject([harmful |-> JInt(1, U32(1)), neutral |-> JFloat,
                                   helpful |-> JNull, extra |-> JInt(0, U32(2))])])
PayloadUpdate ==
    JObject([type |-> JString(<<"U", "p", "d", "a", "t", "e">>), content |-> JString("v2"),
             bullet_id |-> JString(IdX), metadata |-> JArray(<<JInt(0, U32(1))>>)])
PayloadRemove ==
    JObject([type |-> JString(<<"r", "e", "m", "o", "v", "e">>), bullet_id |-> JString(IdRetry1),
             metadata |-> JObject(EmptyMap)])
PayloadBadKind ==
    JObject([type |-> JString(<<"b", "o", "g", "u", "s">>), section |-> JString(SectionRetry)])
PayloadNoKind == JObject([section |-> JString(SectionRetry)])
PayloadNumber == JInt(0, U32(5))

OperationPayloads ==
    { PayloadAdd, PayloadAddMeta, PayloadTagMixed, PayloadTagWide, PayloadUpdate,
      PayloadRemove, PayloadBadKind, PayloadNoKind, PayloadNumber }

\* a payload of DeltaBatch::from_json with the given array of operations
BatchPayload(items) ==
    JObject([reasoning |-> JString("init"), operations |-> JArray(items)])

\* DeltaBatch.operations: the sequences of at most MaxBatch operations of ops
Batches(ops) == UNION { [1..n -> ops] : n \in 0..MaxBatch }

\* the orders in which a HashMap with key set S may yield its keys
Orderings(S) ==
    { f \in [1..Cardinality(S) -> S] : \A i, j \in 1..Cardinality(S) : f[i] = f[j] => i = j }

\* one iteration order for the metadata of each operation of a batch
IterOrders(operations) ==
    LET all == UNION { Orderings(DOMAIN operations[i].metadata) : i \in 1..Len(operations) }
    IN  { f \in [1..Len(operations) -> all] :
            \A i \in 1..Len(operations) : f[i] \in Orderings(DOMAIN operations[i].metadata) }

(* --------------------------- explored region --------------------------- *)

TrackedCounters == { U32(n) : n \in 0..MaxCount } \cup { U32_MAX }

RECURSIVE SumLen(_, _)
SumLen(m, S) ==
    IF S = {} THEN 0
    ELSE LET k == CHOOSE k \in S : TRUE IN Len(m[k]) + SumLen(m, S \ {k})

Entries(pb) == SumLen(pb.sections, DOMAIN pb.sections)

InBounds(pb) ==
    /\ Entries(pb) <= MaxEntries
    /\ pb.next_id <= MaxNextId
    /\ \A id \in DOMAIN pb.bullets :
         /\ pb.bullets[id].helpful \in TrackedCounters
         /\ pb.bullets[id].harmful \in TrackedCounters
         /\ pb.bullets[id].neutral \in TrackedCounters

(* ------------------------------- actions ------------------------------- *)

\* Playbook::new
Init ==
    /\ bullets = EmptyPlaybook.bullets
    /\ sections = EmptyPlaybook.sections
    /\ next_id = EmptyPlaybook.next_id
    /\ last = [op |-> "new", err |-> "Ok"]

Becomes(pb) ==
    /\ InBounds(pb)
    /\ bullets' = pb.bullets
    /\ sections' = pb.sections
    /\ next_id' = pb.next_id

\* a call of add_bullet
AddBullet(secs, ids, metas) ==
    \E section \in secs, bullet_id \in ids, metadata \in metas :
        LET r == add_bullet(Store, section, "Use backoff", bullet_id, metadata)
        IN  /\ Becomes(r.pb)
            /\ last' = [op |-> "add_bullet", section |-> section,
                        content |-> "Use backoff", bullet_id |-> bullet_id,
                        metadata |-> metadata, key |-> r.key, ret |-> r.ret,
                        err |-> "Ok"]

\* a call of update_bullet
UpdateBullet(ids, contents, metas) ==
    \E bullet_id \in ids \cup DOMAIN bullets, content \in contents, metadata \in metas :
        LET r == update_bullet(Store, bullet_id, content, metadata)
        IN  /\ Becomes(r.pb)
            /\ last' = [op |-> "update_bullet", bullet_id |-> bullet_id,
                        content |-> content, metadata |-> metadata, err |-> r.err]

\* a call of tag_bullet
TagBullet(ids, names, increments) ==
    \E bullet_id \in ids \cup DOMAIN bullets, t \in names, increment \in increments :
        LET r == tag_bullet(Store, bullet_id, t, increment)
        IN  /\ Becomes(r.pb)
            /\ last' = [op |-> "tag_bullet", bullet_id |-> bullet_id, tag |-> t,
                        increment |-> increment, before |-> get_bullet(Store, bullet_id),
                        err |-> r.err]

\* a call of remove_bullet
RemoveBullet(ids) ==
    \E bullet_id \in ids \cup DOMAIN bullets :
        LET r == remove_bullet(Store, bullet_id)
        IN  /\ Becomes(r.pb)
            /\ last' = [op |-> "remove_bullet", bullet_id |-> bullet_id,
                        ret |-> r.ret, err |-> "Ok"]

\* a call of apply_delta
ApplyDelta(ops) ==
    \E operations \in Batches(ops) :
        \E orders \in IterOrders(operations) :
            LET r == apply_delta(Store, operations, orders)
            IN  /\ Becomes(r.pb)
                /\ last' = [op |-> "apply_delta", operations |-> operations,
                            err |-> r.err, failed |-> r.failed]

\* a call of as_prompt
AsPrompt ==
    /\ last' = [op |-> "as_prompt", ret |-> as_prompt(Store), err |-> "Ok"]
    /\ UNCHANGED <<bullets, sections, next_id>>

\* a call of to_string, which formats through impl Display
Display ==
    /\ last' = [op |-> "to_string", ret |-> fmt(Store), err |-> "Ok"]
    /\ UNCHANGED <<bullets, sections, next_id>>

\* a call of stats
Stats ==
    /\ last' = [op |-> "stats", ret |-> stats(Store), err |-> "Ok"]
    /\ UNCHANGED <<bullets, sections, next_id>>

\* a call of DeltaOperation::from_json, on a payload of payloads or on the
\* value that to_json has just returned
ParseOperation(payloads) ==
    \E payload \in payloads \cup (IF last.op = "to_json" THEN {last.ret} ELSE {}) :
        LET r == DeltaOperation_from_json(payload)
        IN  /\ last' = [op |-> "from_json", payload |-> payload, ret |-> r.ret, err |-> r.err]
            /\ UNCHANGED <<bullets, sections, next_id>>

\* a call of DeltaOperation::to_json on the operation just parsed
SerializeOperation ==
    /\ last.op = "from_json"
    /\ last.err = "Ok"
    /\ last' = [op |-> "to_json", operation |-> last.ret[1],
                ret |-> DeltaOperation_to_json(last.ret[1]), err |-> "Ok"]
    /\ UNCHANGED <<bullets, sections, next_id>>

\* a call of DeltaBatch::from_json
ParseBatch(elements) ==
    \E items \in Batches(elements) :
        LET r == DeltaBatch_from_json(BatchPayload(items))
        IN  /\ last' = [op |-> "batch_from_json", items |-> items, ret |-> r.ret,
                        err |-> r.err]
            /\ UNCHANGED <<bullets, sections, next_id>>

\* a call of apply_delta with the batch just parsed
ApplyParsed ==
    /\ last.op = "batch_from_json"
    /\ last.err = "Ok"
    /\ \E orders \in IterOrders(last.ret[1].operations) :
           LET r == apply_delta(Store, last.ret[1].operations, orders)
           IN  /\ Becomes(r.pb)
               /\ last' = [op |-> "apply_delta", operations |-> last.ret[1].operations,
                           err |-> r.err, failed |-> r.failed]

(* Store operations with and without caller-supplied ids, in two sections
   whose generated ids share the prefix of the supplied id. *)
Next ==
    \/ AddBullet({SectionRetry, SectionRetryLogic}, {None, Some(IdRetry1)}, {None})
    \/ UpdateBullet({IdX}, {Some("v2")}, {None})
    \/ TagBullet({IdX}, {"helpful", "bogus"}, {-100})
    \/ RemoveBullet({IdRetry1, IdX})
    \/ ApplyDelta({OpAddRetry, OpAddSupplied, OpUpdateNoId})

Spec == Init /\ [][Next]_vars

(* One id in one section, with every counter, tag name and increment. *)
NextCounters ==
    \/ AddBullet({SectionRetry}, {Some(IdX)}, AbsMetadata)
    \/ UpdateBullet({IdX}, {None}, AbsMetadata)
    \/ TagBullet({IdX}, TagNames, Increments)
    \/ RemoveBullet({IdX})
    \/ ApplyDelta({OpTagX})

SpecCounters == Init /\ [][NextCounters]_vars

(* Delta batches alone. *)
NextDelta ==
    ApplyDelta({OpAddRetry, OpTagInvalid, OpTagTwo, OpRemoveRetry1})

SpecDelta == Init /\ [][NextDelta]_vars

(* Every id is generated: no caller supplies one. *)
NextGenerated ==
    \/ AddBullet({SectionEmpty, SectionRetry, SectionMulti}, {None}, {None})
    \/ UpdateBullet({}, {Some("v2")}, {None})
    \/ TagBullet({}, {"helpful"}, {-100})
    \/ RemoveBullet({})
    \/ ApplyDelta({OpAddRetry, OpAddMulti})

SpecGenerated == Init /\ [][NextGenerated]_vars

(* Operations that name a bullet that may be missing, or name none. *)
NextErrors ==
    \/ UpdateBullet({IdRetry1}, {None}, {None})
    \/ TagBullet({IdRetry1}, {"helpful", "bogus"}, {-100})
    \/ RemoveBullet({IdRetry1})
    \/ ApplyDelta({OpAddRetry, OpTagNoEntries, OpTagTwo})
    \/ ApplyDelta({OpAddRetry, OpUpdateNoId, OpTagNoId, OpRemoveNoId})
    \/ ApplyDelta({OpAddRetry, OpUpdateRetry1, OpRemoveRetry1})

SpecErrors == Init /\ [][NextErrors]_vars

(* Stores built with and without supplied ids, rendered and counted. *)
NextRender ==
    \/ AddBullet({SectionRetryLogic, SectionRetry}, {None, Some(IdRetry1)},
                 {None, Some([neutral |-> U32_MAX])})
    \/ RemoveBullet({IdRetry1})
    \/ AsPrompt
    \/ Display
    \/ Stats

SpecRender == Init /\ [][NextRender]_vars

(* Payloads parsed into operations and batches, serialized again, and the
   parsed batches applied. *)
NextParse ==
    \/ ParseOperation(OperationPayloads)
    \/ SerializeOperation
    \/ ParseBatch({PayloadAdd, PayloadTagMixed, PayloadBadKind, PayloadNumber})
    \/ ApplyParsed

SpecParse == Init /\ [][NextParse]_vars

(* ------------------------------- claims -------------------------------- *)

\* the number of positions of ids that hold id
Count(ids, id) == Cardinality({ i \in 1..Len(ids) : ids[i] = id })

\* C1: every id in a section's sequence is a key of bullets, and the bullet
\* stored under it names that section in its section field.
C1_IndexedIdsAreStored ==
    \A s \in DOMAIN sections :
        \A i \in 1..Len(sections[s]) :
            /\ sections[s][i] \in DOMAIN bullets
            /\ bullets[sections[s][i]].section = s

\* C2: every key of bullets occurs exactly once in the sequence of the
\* section its bullet names, and no section's sequence holds an id twice.
C2_StoredOnceNoDuplicates ==
    /\ \A id \in DOMAIN bullets :
           /\ bullets[id].section \in DOMAIN sections
           /\ Count(sections[bullets[id].section], id) = 1
    /\ \A s \in DOMAIN sections :
           \A i, j \in 1..Len(sections[s]) : sections[s][i] = sections[s][j] => i = j

\* C4: get_bullet on the id of the bullet add_bullet returned finds a bullet
\* with the section, content and counters of the bullet that was added.
C4_AddThenGet ==
    last.op = "add_bullet" =>
        LET found == get_bullet(Store, last.ret.id)
        IN  /\ found # None
            /\ found[1].section = last.section
            /\ found[1].content = last.content
            /\ found[1].helpful = last.ret.helpful
            /\ found[1].harmful = last.ret.harmful
            /\ found[1].neutral = last.ret.neutral

\* C5: after remove_bullet(id) of a stored id, get_bullet(id) finds nothing,
\* no section's sequence holds id, and a section that the removed bullet was
\* the only bullet of is no longer a key of sections.
C5_RemoveDetaches ==
    (last.op = "remove_bullet" /\ last.ret # None) =>
        /\ get_bullet(Store, last.bullet_id) = None
        /\ \A s \in DOMAIN sections : Count(sections[s], last.bullet_id) = 0
        /\ (\A id \in DOMAIN bullets : bullets[id].section # last.ret[1].section)
               => last.ret[1].section \notin DOMAIN sections

\* C6: the id field of every stored bullet is the key it is stored under.
C6_IdFieldIsKey == \A id \in DOMAIN bullets : bullets[id].id = id

\* C7: the outcome of apply_delta (error and resulting store) is the same
\* for every order in which the metadata maps of the batch yield their keys.
C7_Deterministic ==
    [][ last'.op = "apply_delta" =>
          \A orders \in IterOrders(last'.operations) :
              LET r == apply_delta(Store, last'.operations, orders)
              IN  r.pb = Store' /\ r.err = last'.err ]_vars

\* the recognised tag names among the metadata keys of a TAG operation
RecognisedKeys(op) ==
    IF op.type_ = "TAG" THEN (DOMAIN op.metadata) \cap {"helpful", "harmful", "neutral"}
    ELSE {}

\* pb is the outcome of operations 1..n, all of which succeed
IsPrefixOutcome(pb, from, operations, n) ==
    \A orders \in IterOrders(SubSeq(operations, 1, n)) :
        LET r == apply_delta(from, SubSeq(operations, 1, n), orders)
        IN  r.err = "Ok" /\ r.pb = pb

\* the store of the playbook that operations 1..n lead to from `from`
PrefixStore(from, operations, n) ==
    apply_delta(from, SubSeq(operations, 1, n),
                CHOOSE orders \in IterOrders(SubSeq(operations, 1, n)) : TRUE).pb

\* C3 as stated: when apply_delta fails on operation k, it returns that
\* operation's error and the store is the one operations 1..k-1 lead to.
C3_FailureKeepsExactlyThePrefix ==
    [][ (last'.op = "apply_delta" /\ last'.failed # 0) =>
          LET k == last'.failed
              prefix == PrefixStore(Store, last'.operations, k - 1)
          IN  /\ IsPrefixOutcome(prefix, Store, last'.operations, k - 1)
              /\ \A order \in Orderings(DOMAIN last'.operations[k].metadata) :
                     apply_operation(prefix, last'.operations[k], order).err = last'.err
              /\ Store' = prefix ]_vars

\* C3 as amended: when apply_delta fails on operation k, it returns that
\* operation's error, and the store is the one operations 1..k-1 lead to,
\* except that for a TAG operation k that fails with InvalidTag the increments
\* of some of its recognised entries have been applied to its bullet.
C3_FailureKeepsThePrefix ==
    [][ (last'.op = "apply_delta" /\ last'.failed # 0) =>
          LET k == last'.failed
              opk == last'.operations[k]
              prefix == PrefixStore(Store, last'.operations, k - 1)
          IN  /\ last'.err # "Ok"
              /\ IsPrefixOutcome(prefix, Store, last'.operations, k - 1)
              /\ \A order \in Orderings(DOMAIN opk.metadata) :
                     apply_operation(prefix, opk, order).err = last'.err
              /\ IF last'.err = "InvalidTag"
                 THEN \E applied \in SUBSET RecognisedKeys(opk) :
                          \E order \in Orderings(applied) :
                              Store' = TagEntries(prefix, opk.bullet_id[1],
                                                  opk.metadata, order, 1).pb
                 ELSE Store' = prefix ]_vars

\* C3 witness: a batch failed on its second operation, a TAG with an
\* unrecognised name, after the increment of its recognised entry was applied
\* to the bullet that the first operation added.
C3_Witness ==
    /\ last.op = "apply_delta"
    /\ last.operations = <<OpAddRetry, OpTagInvalid>>
    /\ last.failed = 2
    /\ last.err = "InvalidTag"
    /\ IdRetry1 \in DOMAIN bullets
    /\ bullets[IdRetry1].helpful = U32(1)

\* the counter of bullet b that tag name t names
Counter(b, t) ==
    CASE t = "helpful" -> b.helpful
      [] t = "harmful" -> b.harmful
      [] t = "neutral" -> b.neutral

\* the value of a u32 below 2^30 as a number
Value(c) == c.hi * Limb + c.lo

IsU32(c) == c.hi \in 0..(Limb - 1) /\ c.lo \in 0..(Limb - 1)

\* tag_bullet succeeded on a stored bullet in this step
TagSucceeded ==
    /\ last'.op = "tag_bullet"
    /\ last'.err = "Ok"
    /\ last'.before # None

\* the two counters that the tag does not name, content, section and id are
\* as before, and no other bullet changed
TagFrame ==
    /\ DOMAIN bullets' = DOMAIN bullets
    /\ \A id \in (DOMAIN bullets) \ {last'.bullet_id} : bullets'[id] = bullets[id]
    /\ \A t \in {"helpful", "harmful", "neutral"} \ {last'.tag} :
           Counter(bullets'[last'.bullet_id], t) = Counter(bullets[last'.bullet_id], t)

\* C8 as stated: a successful tag_bullet sets the named counter to
\* max(0, current + delta) and leaves the other two counters unchanged.
C8_TagIsMaxZero ==
    [][ TagSucceeded =>
          LET w == WideSum(Counter(bullets[last'.bullet_id], last'.tag), last'.increment)
          IN  /\ Counter(bullets'[last'.bullet_id], last'.tag) =
                     (IF w.hi < 0 THEN U32(0) ELSE w)
              /\ TagFrame ]_vars

\* C8 as amended: a successful tag_bullet sets the named counter to
\* min(2^32 - 1, max(0, current + delta)) and leaves the other two counters
\* unchanged; every counter of every stored bullet is a u32, never negative.
C8_TagSaturates ==
    /\ [](\A id \in DOMAIN bullets :
              IsU32(bullets[id].helpful) /\ IsU32(bullets[id].harmful)
                  /\ IsU32(bullets[id].neutral))
    /\ [][ TagSucceeded =>
             LET old == Counter(bullets[last'.bullet_id], last'.tag)
                 new == Counter(bullets'[last'.bullet_id], last'.tag)
                 delta == last'.increment
             IN  /\ IF old = U32_MAX
                    THEN IF delta >= 0 THEN new = U32_MAX
                         ELSE new = [hi |-> Limb - 1, lo |-> Limb - 1 + delta]
                    ELSE Value(new) = (IF Value(old) + delta > 0
                                       THEN Value(old) + delta ELSE 0)
                 /\ TagFrame ]_vars

\* C8 witness: helpful = 3 was tagged with -100 and is 0 now, while another
\* counter of the same bullet is not 0.
C8_Witness ==
    /\ last.op = "tag_bullet"
    /\ last.err = "Ok"
    /\ last.tag = "helpful"
    /\ last.increment = -100
    /\ last.before # None
    /\ last.before[1].helpful = U32(3)
    /\ bullets[last.bullet_id].helpful = U32(0)
    /\ bullets[last.bullet_id].harmful = U32(1)

\* the prefix that the specification gives to ids generated for a section
ExpectedPrefix(section) ==
    CASE section = SectionEmpty      -> <<"d","e","f","a","u","l","t">>
      [] section = SectionRetry      -> <<"r","e","t","r","y">>
      [] section = SectionRetryLogic -> <<"r","e","t","r","y">>
      [] section = SectionMulti      -> <<"b">>

\* "<prefix>-<n zero-padded to 5 digits>", for n below 10
ExpectedId(section, n) ==
    ExpectedPrefix(section) \o <<"-", "0", "0", "0", "0">> \o <<DigitChars[n + 1]>>

\* the positions up to n of the ADD operations that carry no bullet_id
GeneratedAdds(operations, n) ==
    { i \in 1..n : operations[i].type_ = "ADD" /\ operations[i].bullet_id = None }

\* the number of operations of the last batch that were applied successfully
Applied(l) == IF l.failed = 0 THEN Len(l.operations) ELSE l.failed - 1

\* C9: an add without a supplied id increments next_id by exactly 1 and
\* stores the new bullet under "<prefix>-<new next_id, 5 digits>"; the single
\* operation ADD("Retry", "Use backoff") on an empty store leaves exactly one
\* bullet, under retry-00001, with next_id = 1.
C9_GeneratedIds ==
    [][ /\ (last'.op = "add_bullet" /\ last'.bullet_id = None) =>
              /\ next_id' = next_id + 1
              /\ last'.key = ExpectedId(last'.section, next_id')
              /\ last'.key \in DOMAIN bullets'
              /\ bullets'[last'.key].section = last'.section
              /\ bullets'[last'.key].content = last'.content
        /\ last'.op = "apply_delta" =>
              LET ops == last'.operations
                  adds == GeneratedAdds(ops, Applied(last'))
              IN  /\ next_id' = next_id + Cardinality(adds)
                  /\ \A i \in adds :
                         LET id == ExpectedId(ops[i].section,
                                              next_id + Cardinality(GeneratedAdds(ops, i)))
                         IN  (\A j \in (i + 1)..Applied(last') : ops[j].bullet_id # Some(id))
                                 => /\ id \in DOMAIN bullets'
                                    /\ bullets'[id].section = ops[i].section
        /\ (last'.op = "apply_delta" /\ last'.operations = <<OpAddRetry>>
                /\ Store = EmptyPlaybook) =>
              /\ DOMAIN bullets' = {IdRetry1}
              /\ bullets'[IdRetry1].content = "Use backoff"
              /\ next_id' = 1 ]_vars

\* C9 witness: the single operation ADD("Retry", "Use backoff") was applied
\* and the store holds one bullet, under retry-00001, with next_id = 1.
C9_Witness ==
    /\ last.op = "apply_delta"
    /\ last.operations = <<OpAddRetry>>
    /\ last.err = "Ok"
    /\ DOMAIN bullets = {IdRetry1}
    /\ next_id = 1

\* C10: next_id never decreases; update_bullet, tag_bullet, remove_bullet and
\* add_bullet with a supplied id leave it unchanged, and apply_delta changes it
\* only by the number of applied ADD operations without bullet_id (so not by
\* the operation that failed, nor by an ADD with bullet_id).
C10_NextIdFrame ==
    [][ /\ next_id' >= next_id
        /\ last'.op \in {"update_bullet", "tag_bullet", "remove_bullet"} => next_id' = next_id
        /\ (last'.op = "add_bullet" /\ last'.bullet_id # None) => next_id' = next_id
        /\ last'.op = "apply_delta" =>
              next_id' = next_id
                  + Cardinality(GeneratedAdds(last'.operations, Applied(last'))) ]_vars

\* C10 witness: a batch of an ADD with a supplied id and a failing UPDATE was
\* applied to a store whose next_id is 1.
C10_Witness ==
    /\ last.op = "apply_delta"
    /\ last.operations = <<OpAddSupplied, OpUpdateNoId>>
    /\ last.failed = 2
    /\ next_id = 1
    /\ IdRetry1 \in DOMAIN bullets

\* C11: after any sequence of add_bullet, update_bullet, tag_bullet,
\* remove_bullet and apply_delta calls on an empty Playbook, no key of
\* sections maps to an empty sequence.
C11_NoEmptySection == \A s \in DOMAIN sections : sections[s] # <<>>

\* C11 witness: remove_bullet took the only id out of its bullet's section,
\* that section is no longer a key, and another section is still indexed.
C11_Witness ==
    /\ last.op = "remove_bullet"
    /\ last.ret # None
    /\ last.ret[1].section \notin DOMAIN sections
    /\ DOMAIN sections # {}

\* operation k of the last batch was reached: no earlier operation failed
Reached(l, k) == k \in 1..Len(l.operations) /\ (l.failed = 0 \/ k <= l.failed)

\* operation op names, with Some(id), a bullet that store pb does not hold
NamesMissing(pb, op) ==
    op.bullet_id # None /\ op.bullet_id[1] \notin DOMAIN pb.bullets

\* update_bullet / tag_bullet was called in this step on an id that is not a
\* key of bullets: it failed with BulletNotFound and the store is unchanged
C12_DirectCalls ==
    (last'.op \in {"update_bullet", "tag_bullet"} /\ last'.bullet_id \notin DOMAIN bullets)
        => (last'.err = "BulletNotFound" /\ Store' = Store)

\* C12 as stated: update_bullet, tag_bullet, an UPDATE operation and every TAG
\* operation, whatever the number of its metadata entries, on an id that is
\* not a key of bullets fails with BulletNotFound and leaves the store as it
\* was before the operation.
C12_MissingIdFails ==
    [][ /\ C12_DirectCalls
        /\ last'.op = "apply_delta" =>
              \A k \in 1..Len(last'.operations) :
                  LET opk == last'.operations[k]
                      prefix == PrefixStore(Store, last'.operations, k - 1)
                  IN  (Reached(last', k) /\ opk.type_ \in {"UPDATE", "TAG"}
                           /\ NamesMissing(prefix, opk))
                          => /\ last'.failed = k
                             /\ last'.err = "BulletNotFound"
                             /\ Store' = prefix ]_vars

\* C12 as amended: update_bullet, tag_bullet, an UPDATE operation and a TAG
\* operation with at least one metadata entry, on an id that is not a key of
\* bullets, fail with BulletNotFound and leave the store as it was before the
\* operation; a TAG operation with no metadata entry on such an id succeeds,
\* changes nothing, and the batch goes on.
C12_MissingIdFailsUnlessNoEntries ==
    [][ /\ C12_DirectCalls
        /\ last'.op = "apply_delta" =>
              \A k \in 1..Len(last'.operations) :
                  LET opk == last'.operations[k]
                      prefix == PrefixStore(Store, last'.operations, k - 1)
                  IN  (Reached(last', k) /\ opk.type_ \in {"UPDATE", "TAG"}
                           /\ NamesMissing(prefix, opk))
                          => IF opk.type_ = "TAG" /\ DOMAIN opk.metadata = {}
                             THEN /\ last'.failed # k
                                  /\ PrefixStore(Store, last'.operations, k) = prefix
                             ELSE /\ last'.failed = k
                                  /\ last'.err = "BulletNotFound"
                                  /\ Store' = prefix ]_vars

\* C12 witness: a batch added a bullet and then failed with BulletNotFound on
\* a TAG operation with two metadata entries that names an id not in the store.
C12_Witness ==
    /\ last.op = "apply_delta"
    /\ Len(last.operations) = 2
    /\ last.operations[1] = OpAddRetry
    /\ last.operations[2] = OpTagTwo
    /\ last.failed = 2
    /\ last.err = "BulletNotFound"
    /\ IdRetry1 \notin DOMAIN bullets
    /\ DOMAIN bullets # {}

\* C13: an UPDATE, TAG or REMOVE operation whose bullet_id is absent fails
\* with DeltaMissingField and leaves the store as it was before the
\* operation; an ADD operation whose bullet_id is absent does not fail.
C13_MissingField ==
    [][ last'.op = "apply_delta" =>
          \A k \in 1..Len(last'.operations) :
              LET opk == last'.operations[k]
                  prefix == PrefixStore(Store, last'.operations, k - 1)
              IN  (Reached(last', k) /\ opk.bullet_id = None) =>
                      IF opk.type_ = "ADD"
                      THEN /\ last'.failed # k
                           /\ PrefixStore(Store, last'.operations, k).bullets # prefix.bullets
                      ELSE /\ last'.failed = k
                           /\ last'.err = "DeltaMissingField"
                           /\ Store' = prefix ]_vars

\* C13 witness: a batch added a bullet without bullet_id and then failed with
\* DeltaMissingField on a REMOVE operation without bullet_id.
C13_Witness ==
    /\ last.op = "apply_delta"
    /\ Len(last.operations) = 2
    /\ last.operations[1] = OpAddRetry
    /\ last.operations[2] = OpRemoveNoId
    /\ last.failed = 2
    /\ last.err = "DeltaMissingField"
    /\ DOMAIN bullets # {}

\* C14: remove_bullet on an id that is not in the store returns nothing and
\* leaves bullets, sections and next_id unchanged; a REMOVE operation naming
\* such an id does not fail, leaves the store as it was before the operation,
\* and the operations after it in the batch are applied.
C14_RemoveMissingIsNoOp ==
    [][ /\ (last'.op = "remove_bullet" /\ last'.bullet_id \notin DOMAIN bullets)
              => (last'.ret = None /\ last'.err = "Ok" /\ Store' = Store)
        /\ last'.op = "apply_delta" =>
              \A k \in 1..Len(last'.operations) :
                  LET opk == last'.operations[k]
                      prefix == PrefixStore(Store, last'.operations, k - 1)
                  IN  (Reached(last', k) /\ opk.type_ = "REMOVE" /\ NamesMissing(prefix, opk))
                          => /\ last'.failed # k
                             /\ PrefixStore(Store, last'.operations, k) = prefix
                             /\ k < Len(last'.operations) => Reached(last', k + 1)
                             /\ (k = Len(last'.operations) /\ k = 1)
                                    => (Store' = Store /\ last'.err = "Ok") ]_vars

\* C14 witness: a batch of a REMOVE naming retry-00001 and an ADD was applied
\* to the empty store without error, and the ADD stored its bullet.
C14_Witness ==
    /\ last.op = "apply_delta"
    /\ Len(last.operations) = 2
    /\ last.operations[1] = OpRemoveRetry1
    /\ last.operations[2] = OpAddRetry
    /\ last.failed = 0
    /\ next_id = 1
    /\ DOMAIN bullets = {IdRetry1}

\* the lines of a text: its pieces between line feeds
RECURSIVE Lines(_)
Lines(text) ==
    IF \A i \in 1..Len(text) : text[i] # "\n" THEN <<text>>
    ELSE LET n == CHOOSE i \in 1..Len(text) :
                      text[i] = "\n" /\ \A j \in 1..(i - 1) : text[j] # "\n"
         IN  <<SubSeq(text, 1, n - 1)>> \o Lines(SubSeq(text, n + 1, Len(text)))

IsHeading(line) == Len(line) >= 3 /\ SubSeq(line, 1, 3) = <<"#", "#", " ">>

\* line is the line of the bullet stored under id: it holds that id, the
\* bullet's content and its counters
IsLineOf(line, id) == id \in DOMAIN bullets /\ line = LineText(id, bullets[id])

\* C15: as_prompt renders the sections in lexicographic order of their names;
\* under a section's heading come the lines of its bullets in the order the
\* bullets were added, each holding the id the bullet is stored under, its
\* content and its counters; every stored bullet has exactly one line.
C15_PromptListsStoredBullets ==
    last.op = "as_prompt" =>
        LET lines == IF last.ret = <<>> THEN <<>> ELSE Lines(last.ret)
            heads == { i \in 1..Len(lines) : IsHeading(lines[i]) }
        IN  /\ \A i, j \in heads :
                   i < j => StrLess(SubSeq(lines[i], 4, Len(lines[i])),
                                    SubSeq(lines[j], 4, Len(lines[j])))
            /\ \A s \in DOMAIN sections :
                   \E h \in heads :
                       /\ lines[h] = HeadingLine(s)
                       /\ \A j \in 1..Len(sections[s]) :
                              /\ h + j <= Len(lines)
                              /\ IsLineOf(lines[h + j], sections[s][j])
            /\ \A id \in DOMAIN bullets :
                   Cardinality({ i \in 1..Len(lines) : IsLineOf(lines[i], id) }) = 1

\* C16 as stated: as_prompt of a store with no bullets yields the fixed,
\* non-empty empty-state marker, also after the last bullet was removed.
C16_PromptOfEmptyIsMarker ==
    (last.op = "as_prompt" /\ DOMAIN bullets = {}) =>
        (last.ret = EmptyMarker /\ last.ret # <<>>)

\* C16 as amended: formatting a store with no bullets through Display
\* (to_string) yields the fixed, non-empty marker "Playbook(empty)", also
\* after the last bullet was removed; as_prompt of such a store yields no
\* bullet line and no marker: the empty text when no section is indexed,
\* and only section headings otherwise.
C16_DisplayOfEmptyIsMarker ==
    /\ (last.op = "to_string" /\ DOMAIN bullets = {}) =>
           (last.ret = EmptyMarker /\ last.ret # <<>>)
    /\ (last.op = "as_prompt" /\ DOMAIN bullets = {}) =>
           /\ DOMAIN sections = {} <=> last.ret = <<>>
           /\ last.ret # <<>> =>
                  \A i \in 1..Len(Lines(last.ret)) : IsHeading(Lines(last.ret)[i])

\* C16 witness: to_string yielded the marker for a store that held a bullet
\* before and holds none now.
C16_Witness ==
    /\ last.op = "to_string"
    /\ last.ret = EmptyMarker
    /\ DOMAIN bullets = {}
    /\ DOMAIN sections = {}
    /\ next_id > 0

\* the sections whose sequence holds the id of at least one stored bullet
HoldingSections ==
    { s \in DOMAIN sections : \E i \in 1..Len(sections[s]) : sections[s][i] \in DOMAIN bullets }

\* total is the sum of counter t over the stored bullets
IsTotal(total, t) ==
    IF DOMAIN bullets = {} THEN total = U64(U32(0))
    ELSE \A id \in DOMAIN bullets :
             total = AddU64(SumValues(bullets, (DOMAIN bullets) \ {id}, t), U64(bullets[id][t]))

\* C17: stats reports as sections the number of sections that hold at least
\* one stored bullet, as bullets the number of stored bullets, and as tags
\* the sums of helpful, harmful and neutral over the stored bullets; after
\* one add on the empty store it reports 1 section, 1 bullet, totals 0.
C17_StatsCountStoredBullets ==
    last.op = "stats" =>
        /\ last.ret.sections = Cardinality(HoldingSections)
        /\ last.ret.bullets = Cardinality(DOMAIN bullets)
        /\ \A t \in {"helpful", "harmful", "neutral"} : IsTotal(last.ret.tags[t], t)
        /\ (next_id = 1 /\ DOMAIN bullets = {IdRetry1} /\ bullets[IdRetry1].neutral = U32(0)
                /\ Cardinality(DOMAIN sections) = 1)
               => last.ret = [sections |-> 1, bullets |-> 1,
                              tags |-> [helpful |-> U64(U32(0)), harmful |-> U64(U32(0)),
                                        neutral |-> U64(U32(0))]]

\* the spellings of the kind TAG that the payloads use
TagSpellings == { <<"t", "a", "g">>, <<"T", "a", "g">>, <<"T", "A", "G">> }

\* payload is an object whose type is a spelling of TAG
HasTagKind(payload) ==
    /\ payload.t = "object"
    /\ "type" \in DOMAIN payload.o
    /\ payload.o.type.t = "string"
    /\ payload.o.type.s \in TagSpellings

\* the keys of the payload's metadata object that hold an integer
IntegerKeys(payload) ==
    IF "metadata" \in DOMAIN payload.o /\ payload.o.metadata.t = "object"
    THEN { k \in DOMAIN payload.o.metadata.o :
             payload.o.metadata.o[k].t = "number" /\ payload.o.metadata.o[k].int }
    ELSE {}

\* C18: parsing a payload whose kind is TAG in any letter case succeeds and
\* keeps in metadata exactly the integer-valued entries under helpful,
\* harmful and neutral ({helpful:1, bogus:9} parses to {helpful:1}); the
\* TAG operations of a parsed batch have no other key, and applying a parsed
\* batch never fails with InvalidTag.
C18_ParsedTagIsValid ==
    [][ /\ (last'.op = "from_json" /\ HasTagKind(last'.payload)) =>
              /\ last'.err = "Ok"
              /\ last'.ret[1].type_ = "TAG"
              /\ DOMAIN last'.ret[1].metadata
                     = IntegerKeys(last'.payload) \cap {"helpful", "harmful", "neutral"}
        /\ (last'.op = "from_json" /\ last'.payload = PayloadTagMixed) =>
              last'.ret[1].metadata = [helpful |-> 1]
        /\ (last'.op = "batch_from_json" /\ last'.err = "Ok") =>
              \A i \in 1..Len(last'.ret[1].operations) :
                  last'.ret[1].operations[i].type_ = "TAG" =>
                      DOMAIN last'.ret[1].operations[i].metadata
                          \subseteq {"helpful", "harmful", "neutral"}
        /\ last'.op = "apply_delta" => last'.err # "InvalidTag" ]_vars

\* C18 witness: the batch parsed from an add and a TAG with metadata
\* {helpful:1, bogus:9} was applied without error and raised helpful to 1.
C18_Witness ==
    /\ last.op = "apply_delta"
    /\ Len(last.operations) = 2
    /\ last.operations[2] =
           DeltaOperation("TAG", <<>>, None, Some(IdRetry1), [helpful |-> 1])
    /\ last.err = "Ok"
    /\ IdRetry1 \in DOMAIN bullets
    /\ bullets[IdRetry1].helpful = U32(1)

\* item is an object whose type is a string that spells, in some letter
\* case, one of ADD, UPDATE, TAG, REMOVE
HasKnownKind(item) ==
    /\ item.t = "object"
    /\ "type" \in DOMAIN item.o
    /\ item.o.type.t = "string"
    /\ \E type_ \in {"ADD", "UPDATE", "TAG", "REMOVE"} :
           to_lowercase(item.o.type.s) = to_lowercase(OperationTypeText(type_))

\* C19: when an element of the operations array is no operation object, or
\* an object whose kind is not one of ADD/UPDATE/TAG/REMOVE, DeltaBatch
\* parsing fails and yields no batch.
C19_InvalidElementFailsBatch ==
    (last.op = "batch_from_json"
         /\ \E i \in 1..Len(last.items) : ~HasKnownKind(last.items[i]))
        => (last.err # "Ok" /\ last.ret = None)

\* the kind of an operation as to_json is to write it
LowerKind(type_) ==
    CASE type_ = "ADD" -> <<"a", "d", "d">>
      [] type_ = "UPDATE" -> <<"u", "p", "d", "a", "t", "e">>
      [] type_ = "TAG" -> <<"t", "a", "g">>
      [] type_ = "REMOVE" -> <<"r", "e", "m", "o", "v", "e">>

\* C20: from_json on the value that to_json returned for a parsed operation
\* succeeds and yields that operation (same kind, section, content,
\* bullet_id and metadata); to_json writes the kind in lowercase, always the
\* section, content and bullet_id only when present and metadata only when
\* it is not empty.
C20_SerializeInvertsParse ==
    [][ /\ (last.op = "to_json" /\ last'.op = "from_json" /\ last'.payload = last.ret) =>
              /\ last'.err = "Ok"
              /\ last'.ret = Some(last.operation)
        /\ last'.op = "to_json" =>
              LET o == last'.ret.o
                  operation == last'.operation
              IN  /\ last'.ret.t = "object"
                  /\ o.type = JString(LowerKind(operation.type_))
                  /\ o.section = JString(operation.section)
                  /\ "content" \in DOMAIN o <=> operation.content # None
                  /\ "bullet_id" \in DOMAIN o <=> operation.bullet_id # None
                  /\ "metadata" \in DOMAIN o <=> DOMAIN operation.metadata # {}
                  /\ DOMAIN o \subseteq {"type", "section", "content", "bullet_id", "metadata"} ]_vars

\* C20 witness: the operation parsed from an ADD payload with a number as
\* content and metadata {helpful:-2, bogus:9, neutral:1.5} was serialized,
\* and the serialized value was parsed into the same operation.
C20_Witness ==
    /\ last.op = "from_json"
    /\ last.err = "Ok"
    /\ last.payload.o.type = JString(<<"a", "d", "d">>)
    /\ "content" \notin DOMAIN last.payload.o
    /\ last.ret = Some(DeltaOperation("ADD", SectionRetry, None, None,
                                      [helpful |-> -2, bogus |-> 9]))

\* the last five characters of an id: the digits of a generated id
Digits5(id) == SubSeq(id, Len(id) - 4, Len(id))

\* the store holds exactly the bullets it held before and those under ids
\* (none of which it held), and the bullets it held are as they were
AddsOnly(ids) ==
    /\ ids \cap DOMAIN bullets = {}
    /\ DOMAIN bullets' = (DOMAIN bullets) \cup ids
    /\ \A id \in DOMAIN bullets : bullets'[id] = bullets[id]

\* the stored ids carry pairwise different counter values, none above
\* next_id; every stored bullet occurs exactly once in the sequence of its
\* own section and in no other; every indexed id is a key of bullets
FreshAndIndexed ==
    /\ \A id \in DOMAIN bullets :
           /\ Len(id) >= 6
           /\ \E n \in 1..next_id : Digits5(id) = Pad5(n)
    /\ \A id1, id2 \in DOMAIN bullets : Digits5(id1) = Digits5(id2) => id1 = id2
    /\ \A id \in DOMAIN bullets :
           /\ bullets[id].section \in DOMAIN sections
           /\ \A s \in DOMAIN sections :
                  Count(sections[s], id) = (IF s = bullets[id].section THEN 1 ELSE 0)
    /\ \A s \in DOMAIN sections :
           \A i \in 1..Len(sections[s]) : sections[s][i] \in DOMAIN bullets

\* C21: when every id is generated by the store, (a) the stored ids carry
\* pairwise different counter values, none above next_id, so that an id
\* generated later differs from all of them; (b) an add, direct or in a
\* batch, stores its bullet under an id the store did not hold and leaves
\* the bullets it held as they were; (c) every stored bullet occurs exactly
\* once in the sequence of its own section and in no other, and every
\* indexed id is a key of bullets.
C21_GeneratedIdsAreFresh ==
    /\ []FreshAndIndexed
    /\ [][ /\ last'.op = "add_bullet" => AddsOnly({last'.key})
           /\ last'.op = "apply_delta" =>
                 LET ops == last'.operations
                     adds == GeneratedAdds(ops, Applied(last'))
                     ids == { ExpectedId(ops[i].section,
                                         next_id + Cardinality(GeneratedAdds(ops, i))) :
                                  i \in adds }
                 IN  /\ Cardinality(ids) = Cardinality(adds)
                     /\ AddsOnly(ids) ]_vars

\* C21 witness: a batch of two adds to different sections was applied to the
\* empty store, which now holds two bullets in two sections.
C21_Witness ==
    /\ last.op = "apply_delta"
    /\ last.operations = <<OpAddRetry, OpAddMulti>>
    /\ last.failed = 0
    /\ next_id = 2
    /\ Cardinality(DOMAIN bullets) = 2
    /\ Cardinality(DOMAIN sections) = 2

====
